---- MODULE Spec2Model ----
(***************************************************************************)
(* Model of scripts/dashboard.py: the survey table is read from a CSV,     *)
(* its satisfaction columns are mapped to numeric scores, the filter       *)
(* options are derived from it, and the Dash callback update_dashboard     *)
(* filters the table and recomputes the summary and the two charts.        *)
(***************************************************************************)
EXTENDS Integers, Sequences, FiniteSets, TLC

VARIABLES
    pc,                 \* position of the script: "start", "cleaning", "layout", "serving", "exited"
    csv,                \* the input file: [exists, columns, rows], rows of text fields
    df,                 \* the base table: [columns, dtypes, rows]
    ci,                 \* index of the next column of the cleaning loop
    facility_options,   \* values offered by facility-dropdown
    sex_options,        \* values offered by sex-dropdown
    facility_value,     \* current value of facility-dropdown (a set of values)
    sex_value,          \* current value of sex-dropdown
    n_clicks,           \* n_clicks of reset-button
    last                \* the latest invocation of update_dashboard: its inputs, subset and outputs

vars == <<pc, csv, df, ci, facility_options, sex_options, facility_value, sex_value, n_clicks, last>>

(***************************************************************************)
(* Bounds of the model.                                                    *)
(***************************************************************************)
MaxRows == 2      \* rows of the input file
MaxClicks == 1    \* reset clicks followed

(***************************************************************************)
(* Column lists.                                                           *)
(***************************************************************************)
care_satisfaction_cols ==
    << "satisfaction_waiting_time", "Time with the health provider",
       "Privacy during examination", "Staff attitude",
       "Opening hours of the facility", "Quality of the advice and information",
       "satisfaction_procedure_treatment", "overall_satisfaction_rating" >>

facility_satisfaction_cols ==
    << "facility_cleanliness_rating", "facility_condition_rating",
       "facility_info_displayed_rating", "facility_private_talk_spaces_rating",
       "facility_ease_of_movement_rating", "facility_waiting_comfort_rating" >>

filter_cols == << "health_facility", "respondent_sex" >>

all_satisfaction_cols == care_satisfaction_cols \o facility_satisfaction_cols

Range(s) == { s[i] : i \in DOMAIN s }

RequiredCols == Range(all_satisfaction_cols) \cup Range(filter_cols)

(***************************************************************************)
(* Cells of a table: a number, a text value, or the missing marker (NaN).  *)
(***************************************************************************)
Num(n) == [k |-> "num", v |-> n, s |-> ""]
Text(t) == [k |-> "text", v |-> 0, s |-> t]
NaN == [k |-> "nan", v |-> 0, s |-> ""]

\* The text fields that parse as numbers, with their values.
NumeralValue == ("0" :> 0) @@ ("1" :> 1) @@ ("2" :> 2) @@ ("3" :> 3)

IsNumeral(f) == f \in DOMAIN NumeralValue

satisfaction_mapping ==
    ("Satisfied" :> 3) @@ ("somewhat satisfied" :> 2) @@ ("Dissatisfied" :> 1) @@
    ("Excellent" :> 3) @@ ("Good" :> 2) @@ ("Fair" :> 1) @@ ("Poor" :> 0)

(***************************************************************************)
(* pd.read_csv: an empty field is missing; a column whose fields are all   *)
(* numerals or empty is numeric, any other column holds its fields as      *)
(* text (object dtype).  A file without rows gives object columns.         *)
(***************************************************************************)
ColumnIsNumeric(rows, col) ==
    /\ rows # << >>
    /\ \A i \in DOMAIN rows : rows[i][col] = "" \/ IsNumeral(rows[i][col])

ReadCell(f, numeric) ==
    IF f = "" THEN NaN
    ELSE IF numeric THEN Num(NumeralValue[f])
    ELSE Text(f)

read_csv(file) ==
    [ columns |-> file.columns,
      dtypes  |-> [c \in file.columns |->
                      IF ColumnIsNumeric(file.rows, c) THEN "number" ELSE "object"],
      rows    |-> [i \in DOMAIN file.rows |->
                      [c \in file.columns |->
                          ReadCell(file.rows[i][c], ColumnIsNumeric(file.rows, c))]] ]

missing_cols(d) == { c \in RequiredCols : c \notin d.columns }

is_numeric_dtype(d, col) == d.dtypes[col] = "number"

(***************************************************************************)
(* The cleaning loop body: Series.replace(satisfaction_mapping), then      *)
(* pd.to_numeric(errors='coerce').                                         *)
(***************************************************************************)
replace(cell) ==
    IF cell.k = "text" /\ cell.s \in DOMAIN satisfaction_mapping
    THEN Num(satisfaction_mapping[cell.s])
    ELSE cell

to_numeric_unchecked(cell) == cell

to_numeric(cell) ==
    IF cell.k = "text"
    THEN IF IsNumeral(cell.s) THEN Num(NumeralValue[cell.s]) ELSE NaN
    ELSE cell

MapAndCoerce(cell) == to_numeric(replace(cell))

clean_column(d, col) ==
    IF col \in d.columns /\ ~is_numeric_dtype(d, col)
    THEN [ d EXCEPT
             !.rows = [i \in DOMAIN d.rows |->
                          [d.rows[i] EXCEPT ![col] = MapAndCoerce(d.rows[i][col])]],
             !.dtypes = [d.dtypes EXCEPT ![col] = "number"] ]
    ELSE d

(***************************************************************************)
(* Filter options: 'all' plus the distinct non-missing values of a column. *)
(***************************************************************************)
present_values(d, col) ==
    { d.rows[i][col].s : i \in { j \in DOMAIN d.rows : d.rows[j][col].k = "text" } }

options_of(d, col) == {"all"} \cup present_values(d, col)

(***************************************************************************)
(* Series.isin and the row filter of update_dashboard.                     *)
(***************************************************************************)
isin_or_missing(cell, selected) == cell.k # "text" \/ cell.s \in selected

isin(cell, selected) == cell.k = "text" /\ cell.s \in selected

RowsWhere(rows, col, selected) ==
    SelectSeq(rows, LAMBDA r : isin(r[col], selected))

filter_applies_to_empty(selected) == "all" \notin selected

\* Python truthiness of the guard `selected and 'all' not in selected`.
filter_applies(selected) == selected # {} /\ "all" \notin selected

filter_by(rows, col, selected) ==
    IF filter_applies(selected) THEN RowsWhere(rows, col, selected) ELSE rows

\* The test `triggered_id == 'reset-button'`; reset_clicks is received and not read.
is_reset_by_clicks(triggered_id, reset_clicks) == reset_clicks > 0

is_reset(triggered_id, reset_clicks) == triggered_id = "reset-button"

filtered_df(d, selected_facilities, selected_sexes, reset) ==
    IF reset
    THEN d.rows
    ELSE filter_by(filter_by(d.rows, "health_facility", selected_facilities),
                   "respondent_sex", selected_sexes)

(***************************************************************************)
(* Series.mean and Series.max skip missing entries.  A mean is kept as a   *)
(* reduced fraction; den = 0 stands for NaN (no entry to average).         *)
(***************************************************************************)
RECURSIVE Gcd(_, _)
Gcd(a, b) == IF b = 0 THEN a ELSE Gcd(b, a % b)

Frac(sum, cnt) ==
    IF cnt = 0 THEN [num |-> 0, den |-> 0]
    ELSE [num |-> sum \div Gcd(sum, cnt), den |-> cnt \div Gcd(sum, cnt)]

IsNaNMean(m) == m.den = 0

\* Sum and count of the numeric entries of a column.
RECURSIVE Accumulate(_, _, _, _, _)
Accumulate(rows, col, i, sum, cnt) ==
    IF i > Len(rows) THEN Frac(sum, cnt)
    ELSE IF rows[i][col].k = "num"
         THEN Accumulate(rows, col, i + 1, sum + rows[i][col].v, cnt + 1)
         ELSE Accumulate(rows, col, i + 1, sum, cnt)

mean(rows, col) == Accumulate(rows, col, 1, 0, 0)

NumericIdx(rows, col) == { i \in DOMAIN rows : rows[i][col].k = "num" }

column_max(rows, col) ==
    IF NumericIdx(rows, col) = {} THEN NaN
    ELSE Num(CHOOSE m \in { rows[i][col].v : i \in NumericIdx(rows, col) } :
               \A i \in NumericIdx(rows, col) : rows[i][col].v <= m)

\* f"{x:.2f}": the value in hundredths, rounded half to even; 'nan' for NaN.
format_2f(m) ==
    IF IsNaNMean(m) THEN NaN
    ELSE LET q == (100 * m.num) \div m.den
             r == (100 * m.num) % m.den
         IN Num(IF 2 * r > m.den \/ (2 * r = m.den /\ q % 2 = 1) THEN q + 1 ELSE q)

\* max_score, and what `max_score or 'N/A'` prints.
max_score(d) ==
    IF d.rows = << >> THEN Num(3) ELSE column_max(d.rows, "overall_satisfaction_rating")

out_of(ms) ==
    IF ms.k = "num" /\ ms.v = 0 THEN Text("N/A") ELSE ms

(***************************************************************************)
(* select_dtypes(include=np.number).mean(): the means of the numeric       *)
(* columns of a group, in the order of the group's column list.            *)
(***************************************************************************)
select_dtypes(d, cols) == SelectSeq(cols, LAMBDA c : d.dtypes[c] = "number")

\* A series of means: one entry [x |-> column, y |-> mean] per column.
RECURSIVE means(_, _)
means(rows, cols) ==
    IF cols = << >> THEN << >>
    ELSE << [x |-> Head(cols), y |-> mean(rows, Head(cols))] >> \o means(rows, Tail(cols))

Greater(a, b) == a.num * b.den > b.num * a.den

(***************************************************************************)
(* Series.sort_values(ascending=False): kind defaults to 'quicksort',      *)
(* which is not stable, so entries with equal means may come out in any    *)
(* order; missing means are put last, in their original order.  The result *)
(* is the set of series the call may return.                               *)
(***************************************************************************)
RECURSIVE DescendingOrders(_, _)
DescendingOrders(es, S) ==
    IF S = {} THEN { << >> }
    ELSE UNION { { << es[m] >> \o t : t \in DescendingOrders(es, S \ {m}) } :
                 m \in { i \in S : \A j \in S : ~Greater(es[j].y, es[i].y) } }

RECURSIVE AscendingOrders(_, _)
AscendingOrders(es, S) ==
    IF S = {} THEN { << >> }
    ELSE UNION { { << es[m] >> \o t : t \in AscendingOrders(es, S \ {m}) } :
                 m \in { i \in S : \A j \in S : ~Greater(es[i].y, es[j].y) } }

NonNaN(es) == SelectSeq(es, LAMBDA e : ~IsNaNMean(e.y))

NaNLast(es) == SelectSeq(es, LAMBDA e : IsNaNMean(e.y))

sort_values_ascending(es) ==
    { o \o NaNLast(es) : o \in AscendingOrders(NonNaN(es), DOMAIN NonNaN(es)) }

sort_values(es) ==
    { o \o NaNLast(es) : o \in DescendingOrders(NonNaN(es), DOMAIN NonNaN(es)) }

(***************************************************************************)
(* Figures and the summary card.  A bar chart is kept as the series it is  *)
(* drawn from (x: the columns, y: the means, in drawing order).            *)
(***************************************************************************)
placeholder(title) == [kind |-> "placeholder", title |-> title]

bar(series, title) == [kind |-> "bar", title |-> title, data |-> series]

figures(d, rows, group, title, none_title) ==
    LET ms == means(rows, select_dtypes(d, group))
    IN IF ms # << >>
       THEN { bar(series, title) : series \in sort_values(ms) }
       ELSE { placeholder(none_title) }

summary_card(d, rows) ==
    [ kind |-> "card",
      num_respondents |-> Len(rows),
      avg_overall_satisfaction |-> format_2f(mean(rows, "overall_satisfaction_rating")),
      out_of |-> out_of(max_score(d)) ]

no_data_text == [kind |-> "text", text |-> "No data matches the selected filters."]

returned_selection_supplied(reset, selected) == selected

returned_selection(reset, selected) == IF reset THEN {"all"} ELSE selected

no_data_as_card(d, sub, fac, sex) ==
    [ filtered_df |-> sub,
      summary |-> summary_card(d, sub),
      fig_care |-> bar(means(sub, select_dtypes(d, care_satisfaction_cols)),
                       "Average Care Satisfaction Scores"),
      fig_facility |-> bar(means(sub, select_dtypes(d, facility_satisfaction_cols)),
                           "Average Facility Satisfaction Scores"),
      facility_value |-> fac,
      sex_value |-> sex ]

\* The early return for an empty subset.
no_data_result(d, sub, fac, sex) ==
    [ filtered_df |-> sub,
      summary |-> no_data_text,
      fig_care |-> placeholder("No data to display"),
      fig_facility |-> placeholder("No data to display"),
      facility_value |-> fac,
      sex_value |-> sex ]

(***************************************************************************)
(* update_dashboard: the set of results an invocation may return (one per  *)
(* outcome of the two sorts), each with the subset it was computed from.   *)
(***************************************************************************)
update_dashboard(d, selected_facilities, selected_sexes, reset_clicks, triggered_id) ==
    LET reset == is_reset(triggered_id, reset_clicks)
        sub == filtered_df(d, selected_facilities, selected_sexes, reset)
        fac == returned_selection(reset, selected_facilities)
        sex == returned_selection(reset, selected_sexes)
    IN IF sub = << >>
       THEN { no_data_result(d, sub, fac, sex) }
       ELSE { [ filtered_df |-> sub,
                summary |-> summary_card(d, sub),
                fig_care |-> fc,
                fig_facility |-> ff,
                facility_value |-> fac,
                sex_value |-> sex ] :
              fc \in figures(d, sub, care_satisfaction_cols,
                             "Average Care Satisfaction Scores",
                             "No numeric care data to display"),
              ff \in figures(d, sub, facility_satisfaction_cols,
                             "Average Facility Satisfaction Scores",
                             "No numeric facility data to display") }

(***************************************************************************)
(* The input files the model is run on.  A row answers three of the        *)
(* satisfaction questions (overall rating, waiting time, cleanliness) and  *)
(* leaves the other columns empty.  The order of the rows is never read,   *)
(* so files are taken with their rows in one order only.                   *)
(***************************************************************************)
CsvRow(fac, sex, overall, waiting, cleanliness) ==
    [ c \in RequiredCols |->
        CASE c = "health_facility" -> fac
          [] c = "respondent_sex" -> sex
          [] c = "overall_satisfaction_rating" -> overall
          [] c = "satisfaction_waiting_time" -> waiting
          [] c = "facility_cleanliness_rating" -> cleanliness
          [] OTHER -> "" ]

RECURSIVE SetToSeq(_)
SetToSeq(S) ==
    IF S = {} THEN << >>
    ELSE LET x == CHOOSE y \in S : TRUE IN << x >> \o SetToSeq(S \ {x})

NonDecreasing(n, r) ==
    { f \in [1..n -> 1..r] : \A i \in 1..n : \A j \in 1..n : i < j => f[i] <= f[j] }

FilesOver(family) ==
    LET rs == SetToSeq(family)
    IN { [ exists |-> TRUE, columns |-> RequiredCols,
           rows |-> [i \in DOMAIN f |-> rs[f[i]]] ] :
         f \in UNION { NonDecreasing(m, Len(rs)) : m \in 0..MaxRows } }

FilterRows ==
    { CsvRow(fac, sex, o, "", "Good") :
        fac \in {"A", "B", ""}, sex \in {"M", "F", ""}, o \in {"3"} }

\* Files for the aggregation: the overall rating varies, and a respondent who
\* skips the waiting-time question skips the cleanliness question too.
AggRows ==
    { CsvRow(fac, "M", o, w, IF w = "" THEN "" ELSE "Good") :
        fac \in {"A", "B"}, o \in {"0", "3"}, w \in {"3", ""} }

\* Files for the cleaning: every kind of field in a text column, next to a column
\* that is numeric or text.
RawFields ==
    { "3", "Satisfied", "somewhat satisfied", "Dissatisfied",
      "Excellent", "Good", "Fair", "Poor", "n/a", "" }

CleanRows ==
    { CsvRow("A", "M", x, "2", x) : x \in RawFields }

BrokenFiles ==
    { [ exists |-> FALSE, columns |-> {}, rows |-> << >> ],
      [ exists |-> TRUE, columns |-> RequiredCols \ {"Staff attitude"}, rows |-> << >> ] }

NoTable == [ columns |-> {}, dtypes |-> << >>, rows |-> << >> ]

NoCall == [ invoked |-> FALSE ]

InitWith(files) ==
    /\ pc = "start"
    /\ csv \in files
    /\ df = NoTable
    /\ ci = 1
    /\ facility_options = {}
    /\ sex_options = {}
    /\ facility_value = {"all"}
    /\ sex_value = {"all"}
    /\ n_clicks = 0
    /\ last = NoCall

Init == InitWith(FilesOver(FilterRows) \cup BrokenFiles)

(***************************************************************************)
(* The script up to the layout.                                            *)
(***************************************************************************)
LoadData ==
    /\ pc = "start"
    /\ IF ~csv.exists
       THEN pc' = "exited" /\ df' = df
       ELSE /\ df' = read_csv(csv)
            /\ pc' = IF missing_cols(read_csv(csv)) # {} THEN "exited" ELSE "cleaning"
    /\ UNCHANGED <<csv, ci, facility_options, sex_options, facility_value, sex_value,
                   n_clicks, last>>

CleanColumn ==
    /\ pc = "cleaning"
    /\ ci <= Len(all_satisfaction_cols)
    /\ df' = clean_column(df, all_satisfaction_cols[ci])
    /\ ci' = ci + 1
    /\ UNCHANGED <<pc, csv, facility_options, sex_options, facility_value, sex_value,
                   n_clicks, last>>

PrepareOptions ==
    /\ pc = "cleaning"
    /\ ci > Len(all_satisfaction_cols)
    /\ facility_options' = options_of(df, "health_facility")
    /\ sex_options' = options_of(df, "respondent_sex")
    /\ pc' = "layout"
    /\ UNCHANGED <<csv, df, ci, facility_value, sex_value, n_clicks, last>>

(***************************************************************************)
(* The callback.  update_dashboard works on a copy of df.                  *)
(***************************************************************************)
df_filtered_in_place(d, sub) == [d EXCEPT !.rows = sub]

df_after_update(d, sub) == d

Invoke(triggered_id, selected_facilities, selected_sexes) ==
    \E res \in update_dashboard(df, selected_facilities, selected_sexes, n_clicks',
                                 triggered_id) :
        /\ last' = [ invoked |-> TRUE,
                     triggered_id |-> triggered_id,
                     selected_facilities |-> selected_facilities,
                     selected_sexes |-> selected_sexes,
                     reset_clicks |-> n_clicks',
                     out |-> res ]
        /\ facility_value' = res.facility_value
        /\ sex_value' = res.sex_value
        /\ df' = df_after_update(df, res.filtered_df)

\* What the user can make of a multi-select dropdown's value in one step: add an
\* option, remove a selected one, or clear the selection.
edits(value, options) ==
    ({ value \cup {o} : o \in options } \cup { value \ {o} : o \in value } \cup { {} })
        \ { value }

InitialCall ==
    /\ pc = "layout"
    /\ pc' = "serving"
    /\ n_clicks' = n_clicks
    /\ Invoke("none", facility_value, sex_value)
    /\ UNCHANGED <<csv, ci, facility_options, sex_options>>

FacilityChange ==
    /\ pc = "serving"
    /\ \E sel \in edits(facility_value, facility_options) :
          /\ n_clicks' = n_clicks
          /\ Invoke("facility-dropdown", sel, sex_value)
    /\ UNCHANGED <<pc, csv, ci, facility_options, sex_options>>

SexChange ==
    /\ pc = "serving"
    /\ \E sel \in edits(sex_value, sex_options) :
          /\ n_clicks' = n_clicks
          /\ Invoke("sex-dropdown", facility_value, sel)
    /\ UNCHANGED <<pc, csv, ci, facility_options, sex_options>>

ResetClick ==
    /\ pc = "serving"
    /\ n_clicks < MaxClicks
    /\ n_clicks' = n_clicks + 1
    /\ Invoke("reset-button", facility_value, sex_value)
    /\ UNCHANGED <<pc, csv, ci, facility_options, sex_options>>

Next ==
    \/ LoadData
    \/ CleanColumn
    \/ PrepareOptions
    \/ InitialCall
    \/ FacilityChange
    \/ SexChange
    \/ ResetClick

Spec == Init /\ [][Next]_vars

InitAgg == InitWith(FilesOver(AggRows))

SpecAgg == InitAgg /\ [][Next]_vars

InitClean == InitWith(FilesOver(CleanRows))

SpecClean == InitClean /\ [][Next]_vars

(***************************************************************************)
(* Properties.                                                             *)
(***************************************************************************)
Reset == last.triggered_id = "reset-button"

Member(cell, selected) == cell.k = "text" /\ cell.s \in selected

Bypassed(selected) == selected = {} \/ "all" \in selected

\* The rows a pair of selections keeps, a dimension being skipped when its
\* selection is empty or holds "all".
Subset(rows, facilities, sexes) ==
    SelectSeq(rows, LAMBDA r :
        /\ Bypassed(facilities) \/ Member(r["health_facility"], facilities)
        /\ Bypassed(sexes) \/ Member(r["respondent_sex"], sexes))

\* Some result of `results` has the subset, summary and charts of `out`.
SameOutputs(out, results) ==
    \E r \in results :
        /\ r.filtered_df = out.filtered_df
        /\ r.summary = out.summary
        /\ r.fig_care = out.fig_care
        /\ r.fig_facility = out.fig_facility

\* C1 as stated: without the reset trigger the subset is the rows whose facility and
\* sex are members of the selections, a dimension being bypassed only when its
\* selection holds "all".
C1_Original ==
    (last.invoked /\ ~Reset) =>
        last.out.filtered_df =
            SelectSeq(df.rows, LAMBDA r :
                /\ "all" \in last.selected_facilities
                   \/ Member(r["health_facility"], last.selected_facilities)
                /\ "all" \in last.selected_sexes
                   \/ Member(r["respondent_sex"], last.selected_sexes))

\* C1 amended: without the reset trigger the subset is the rows whose facility and
\* sex are members of the selections, a dimension being bypassed when its selection
\* holds "all" or is empty.
C1_Amended ==
    (last.invoked /\ ~Reset) =>
        last.out.filtered_df = Subset(df.rows, last.selected_facilities, last.selected_sexes)

C1_Witness ==
    /\ last.invoked /\ ~Reset
    /\ last.selected_facilities = {}
    /\ last.selected_sexes = {"M"}
    /\ Len(last.out.filtered_df) > 0
    /\ Len(last.out.filtered_df) < Len(df.rows)

\* C2 as stated: selecting every individual value of a dimension gives the subset,
\* summary and charts that selecting "all" for it gives, the other selection fixed.
C2_Original ==
    (last.invoked /\ ~Reset) =>
        /\ last.selected_facilities = facility_options \ {"all"} =>
              SameOutputs(last.out,
                  update_dashboard(df, {"all"}, last.selected_sexes,
                                   last.reset_clicks, last.triggered_id))
        /\ last.selected_sexes = sex_options \ {"all"} =>
              SameOutputs(last.out,
                  update_dashboard(df, last.selected_facilities, {"all"},
                                   last.reset_clicks, last.triggered_id))

WithValue(rows, col) == SelectSeq(rows, LAMBDA r : r[col].k # "nan")

\* C2 amended: for a dimension with at least one value present, selecting every
\* individual value gives the rows of the "all" subset whose value in that dimension
\* is not missing; the outputs are those of "all" when no row of the "all" subset
\* misses the value.
C2_Amended ==
    (last.invoked /\ ~Reset) =>
        /\ (last.selected_facilities = present_values(df, "health_facility")
            /\ last.selected_facilities # {}) =>
              LET every == filtered_df(df, {"all"}, last.selected_sexes, FALSE)
              IN /\ last.out.filtered_df = WithValue(every, "health_facility")
                 /\ WithValue(every, "health_facility") = every =>
                       SameOutputs(last.out,
                           update_dashboard(df, {"all"}, last.selected_sexes,
                                            last.reset_clicks, last.triggered_id))
        /\ (last.selected_sexes = present_values(df, "respondent_sex")
            /\ last.selected_sexes # {}) =>
              LET every == filtered_df(df, last.selected_facilities, {"all"}, FALSE)
              IN /\ last.out.filtered_df = WithValue(every, "respondent_sex")
                 /\ WithValue(every, "respondent_sex") = every =>
                       SameOutputs(last.out,
                           update_dashboard(df, last.selected_facilities, {"all"},
                                            last.reset_clicks, last.triggered_id))

C2_Witness ==
    /\ last.invoked /\ ~Reset
    /\ last.selected_facilities = present_values(df, "health_facility")
    /\ last.selected_facilities # {}
    /\ last.selected_sexes = {"all"}
    /\ Len(last.out.filtered_df) < Len(df.rows)

\* C3: an invocation triggered by the reset button returns what an invocation not
\* triggered by it returns for the selections ["all"] and ["all"], whatever
\* selections it was given.
C3_Reset ==
    (last.invoked /\ Reset) =>
        last.out \in update_dashboard(df, {"all"}, {"all"}, last.reset_clicks,
                                      "facility-dropdown")

C3_Witness ==
    /\ last.invoked /\ Reset
    /\ last.selected_facilities = {"A"}
    /\ last.selected_sexes = {}
    /\ Subset(df.rows, last.selected_facilities, last.selected_sexes) # df.rows

\* C6: when the subset is empty the summary is the fixed text, both charts are the
\* 'No data to display' placeholder, and no count, mean or bar is returned.
C6_NoData ==
    (last.invoked
     /\ (IF Reset THEN df.rows
         ELSE Subset(df.rows, last.selected_facilities, last.selected_sexes)) = << >>) =>
        /\ last.out.summary = [kind |-> "text", text |-> "No data matches the selected filters."]
        /\ last.out.fig_care = [kind |-> "placeholder", title |-> "No data to display"]
        /\ last.out.fig_facility = [kind |-> "placeholder", title |-> "No data to display"]

C6_Witness ==
    /\ last.invoked /\ ~Reset
    /\ df.rows # << >>
    /\ last.selected_facilities = {"A"}
    /\ last.selected_sexes = {"F"}
    /\ last.out.filtered_df = << >>

\* C9: the selections an invocation returns, which become the dropdowns' values, are
\* ["all"] and ["all"] when the reset button triggered it; in every other invocation
\* they are the supplied selections, and the supplied selections are the filters
\* applied, whatever n_clicks has grown to.
C9_Selections ==
    last.invoked =>
        /\ facility_value = last.out.facility_value
        /\ sex_value = last.out.sex_value
        /\ IF Reset
           THEN last.out.facility_value = {"all"} /\ last.out.sex_value = {"all"}
           ELSE /\ last.out.facility_value = last.selected_facilities
                /\ last.out.sex_value = last.selected_sexes
                /\ last.out.filtered_df =
                      Subset(df.rows, last.selected_facilities, last.selected_sexes)

C9_Witness ==
    /\ last.invoked /\ ~Reset
    /\ n_clicks > 0
    /\ last.reset_clicks > 0
    /\ last.selected_facilities = {"B"}
    /\ facility_value = {"B"}
    /\ Len(last.out.filtered_df) < Len(df.rows)

\* C10: once the cleaning loop has finished, no step changes the base table df.
C10_BaseTable == [][(pc \in {"layout", "serving"}) => (df' = df)]_vars

C10_Witness ==
    /\ pc = "serving"
    /\ last.invoked /\ ~Reset
    /\ last.reset_clicks > 0
    /\ last.out.filtered_df # << >>
    /\ Len(last.out.filtered_df) < Len(df.rows)

(***************************************************************************)
(* Properties of the aggregation.                                          *)
(***************************************************************************)
NonEmptyCall == last.invoked /\ last.out.filtered_df # << >>

NoNumericEntry(rows, group) ==
    \A i \in DOMAIN rows : \A j \in DOMAIN group : rows[i][group[j]].k # "num"

\* The mean of the non-missing numeric entries of a column, as sum and count.
EntrySum(rows, col) ==
    LET idx == NumericIdx(rows, col)
        F[S \in SUBSET idx] ==
            IF S = {} THEN 0
            ELSE LET i == CHOOSE j \in S : TRUE IN rows[i][col].v + F[S \ {i}]
    IN F[idx]

IsMeanOf(m, rows, col) ==
    LET n == Cardinality(NumericIdx(rows, col))
    IN IF n = 0 THEN m.den = 0
       ELSE m.den > 0 /\ m.num * n = EntrySum(rows, col) * m.den

GroupChart(fig, rows, group, none_title) ==
    IF NoNumericEntry(rows, group)
    THEN fig = [kind |-> "placeholder", title |-> none_title]
    ELSE /\ fig.kind = "bar"
         /\ \A i \in DOMAIN fig.data : IsMeanOf(fig.data[i].y, rows, fig.data[i].x)

\* C4 as stated: for a non-empty subset each mean shown is the mean of the column's
\* non-missing numeric entries in the subset, and a group without any such entry gets
\* the 'No numeric ... data to display' placeholder instead of a bar chart.
C4_Original ==
    NonEmptyCall =>
        /\ GroupChart(last.out.fig_care, last.out.filtered_df, care_satisfaction_cols,
                      "No numeric care data to display")
        /\ GroupChart(last.out.fig_facility, last.out.filtered_df, facility_satisfaction_cols,
                      "No numeric facility data to display")

\* C5 as stated: for a non-empty subset the "out of N" denominator is the maximum of
\* overall_satisfaction_rating over the whole cleaned table.
C5_Original ==
    NonEmptyCall =>
        /\ NumericIdx(df.rows, "overall_satisfaction_rating") # {}
        /\ last.out.summary.out_of.k = "num"
        /\ \A i \in NumericIdx(df.rows, "overall_satisfaction_rating") :
              df.rows[i]["overall_satisfaction_rating"].v <= last.out.summary.out_of.v
        /\ \E i \in NumericIdx(df.rows, "overall_satisfaction_rating") :
              df.rows[i]["overall_satisfaction_rating"].v = last.out.summary.out_of.v

PositionIn(group, col) == CHOOSE j \in DOMAIN group : group[j] = col

Bars == { f \in { [fig |-> last.out.fig_care, group |-> care_satisfaction_cols],
                  [fig |-> last.out.fig_facility, group |-> facility_satisfaction_cols] } :
            f.fig.kind = "bar" }

\* C8 as stated: the (column, mean) pairs of a chart are ordered by mean descending,
\* and columns with equal means keep the order of the group's column list.
C8_Original ==
    NonEmptyCall =>
        \A f \in Bars : \A i \in DOMAIN f.fig.data : \A j \in DOMAIN f.fig.data :
            (i < j /\ ~IsNaNMean(f.fig.data[i].y) /\ ~IsNaNMean(f.fig.data[j].y)) =>
                /\ ~Greater(f.fig.data[j].y, f.fig.data[i].y)
                /\ f.fig.data[i].y = f.fig.data[j].y =>
                      PositionIn(f.group, f.fig.data[i].x) < PositionIn(f.group, f.fig.data[j].x)

\* C8 amended: the pairs of a chart are the group's columns with their means, those
\* with a mean first, ordered by mean descending, then those whose mean is missing,
\* in the order of the group's column list; the order of columns with equal means is
\* not fixed.
C8_Amended ==
    NonEmptyCall =>
        \A f \in Bars :
            /\ Len(f.fig.data) = Len(f.group)
            /\ \A c \in Range(f.group) :
                  \E i \in DOMAIN f.fig.data :
                      f.fig.data[i].x = c /\ IsMeanOf(f.fig.data[i].y, last.out.filtered_df, c)
            /\ \A i \in DOMAIN f.fig.data : \A j \in DOMAIN f.fig.data :
                  i < j =>
                      /\ IsNaNMean(f.fig.data[i].y) => IsNaNMean(f.fig.data[j].y)
                      /\ (~IsNaNMean(f.fig.data[i].y) /\ ~IsNaNMean(f.fig.data[j].y)) =>
                            ~Greater(f.fig.data[j].y, f.fig.data[i].y)
                      /\ (IsNaNMean(f.fig.data[i].y) /\ IsNaNMean(f.fig.data[j].y)) =>
                            PositionIn(f.group, f.fig.data[i].x)
                                < PositionIn(f.group, f.fig.data[j].x)

C8_Witness ==
    /\ NonEmptyCall
    /\ last.out.fig_care.kind = "bar"
    /\ last.out.fig_care.data[1].x = "satisfaction_waiting_time"
    /\ last.out.fig_care.data[2].x = "overall_satisfaction_rating"
    /\ Greater(last.out.fig_care.data[1].y, last.out.fig_care.data[2].y)
    /\ ~IsNaNMean(last.out.fig_care.data[2].y)

(***************************************************************************)
(* Properties of the cleaning.                                             *)
(***************************************************************************)
Cleaned == pc \in {"layout", "serving"}

\* C7: after the cleaning loop every cell of a satisfaction column is a number or
\* missing: a known label has become its score, in 0..3, a text that is neither a
\* label nor a number has become missing, and a column that was numeric on loading
\* is as loaded.
C7_Cleaned ==
    Cleaned =>
        \A i \in DOMAIN df.rows : \A j \in DOMAIN all_satisfaction_cols :
            LET c == all_satisfaction_cols[j]
                field == csv.rows[i][c]
                cell == df.rows[i][c]
            IN /\ cell.k \in {"num", "nan"}
               /\ field \in DOMAIN satisfaction_mapping =>
                     cell.k = "num" /\ cell.v = satisfaction_mapping[field] /\ cell.v \in 0..3
               /\ (field \notin DOMAIN satisfaction_mapping /\ ~IsNumeral(field)) =>
                     cell.k = "nan"
               /\ ColumnIsNumeric(csv.rows, c) => cell = read_csv(csv).rows[i][c]

C7_Witness ==
    /\ pc = "serving"
    /\ Len(csv.rows) = 2
    /\ csv.rows[1]["overall_satisfaction_rating"] = "somewhat satisfied"
    /\ csv.rows[2]["overall_satisfaction_rating"] = "n/a"
    /\ df.rows[1]["overall_satisfaction_rating"] = Num(2)
    /\ df.rows[2]["overall_satisfaction_rating"] = NaN
    /\ df.rows[1]["satisfaction_waiting_time"] = Num(2)

====
